---------------------------- MODULE Spec2Model ----------------------------
(***************************************************************************)
(* State-machine model of the Strategy subgraph mapping (the event         *)
(* handlers of mapping.ts with transaction and prize rotation).  The        *)
(* entity store is modelled as one function per entity type, whose domain   *)
(* is the set of live keys: Entity.load(k) == null is k \notin DOMAIN.      *)
(* save() writes the whole record under its key, store.remove takes the     *)
(* key out of the domain.                                                   *)
(***************************************************************************)
EXTENDS Integers, Sequences, FiniteSets, TLC

VARIABLES
    stats,          \* ProtocolStats store: keys \subseteq {PROTOCOL_STATS_ID}
    users,          \* User store, keyed by address
    transactions,   \* Transaction store, keyed by sequence number
    lotteryPrizes,  \* LotteryPrize store, keyed by day ("<day>-lottery")
    auctionPrizes,  \* AuctionPrize store, keyed by day ("<day>-auction")
    bids,           \* Bid store, keyed by <<txHash, logIndex>>
    block,          \* number of the block whose events are being delivered
    lastEvent,      \* history: the event processed by the last step
    eligible,       \* history: timestamps of the Transaction-creating events
    winDays         \* history: the days of the LotteryWon events so far

store == <<stats, users, transactions, lotteryPrizes, auctionPrizes, bids>>
vars == <<stats, users, transactions, lotteryPrizes, auctionPrizes, bids,
          block, lastEvent, eligible, winDays>>

---------------------------------------------------------------------------
(* Program constants *)

PROTOCOL_STATS_ID == "protocol-stats"
FEES_POOL_ADDRESS == "0x00000000000fee50000000add2e5500000000000"
ADDRESS_ZERO == "0x0000000000000000000000000000000000000000"
MAX_TRANSACTIONS == 10
MAX_PRIZES == 7
ROTATE_SCAN_DAYS == 100
CLAIM_SCAN_DAYS == 30

(* Absent optional fields (claimTimestamp, claimTxHash, beneficiary, ...) *)
NullInt == -1
NullAddress == "null"

---------------------------------------------------------------------------
(* The entity store *)

EmptyStore == [k \in {} |-> 0]

(* A save that does not overwrite a record that exists. *)
PutIfAbsent(st, k, v) == [x \in DOMAIN st \cup {k} |->
                            IF x \in DOMAIN st THEN st[x] ELSE v]

Put(st, k, v) == [x \in DOMAIN st \cup {k} |-> IF x = k THEN v ELSE st[x]]

(* Block and transaction metadata carried by an event.  One transaction  *)
(* per block: its hash is identified with the block number.              *)
BlockTimestamp(b) == b

TxHash(b) == b

NewUser(address) ==
    [id |-> address, address |-> address,
     totalLotteryWinnings |-> 0, totalAuctionWinnings |-> 0,
     totalAuctionSpent |-> 0, lotteryWinCount |-> 0, auctionWinCount |-> 0,
     totalMinted |-> 0, totalRedeemed |-> 0, transactionCount |-> 0]

(* Without the load: the user is created anew at every call. *)
getOrCreateUserAnew(us, address) == Put(us, address, NewUser(address))

(* getOrCreateUser: the store after the call (a new user is saved). *)
getOrCreateUser(us, address) ==
    IF address \in DOMAIN us THEN us ELSE Put(us, address, NewUser(address))

NewProtocolStats ==
    [totalLotteryPrizes |-> 0, totalAuctionPrizes |-> 0,
     totalLotteryClaimed |-> 0, totalAuctionClaimed |-> 0,
     totalLotteryExpired |-> 0, totalAuctionExpired |-> 0,
     lotteryCount |-> 0, auctionCount |-> 0,
     totalMinted |-> 0, totalRedeemed |-> 0, totalFees |-> 0,
     totalTransactions |-> 0, transactionCounter |-> 0]

(* Without the load: the singleton is created anew at every call. *)
getOrCreateProtocolStatsAnew(ss) == Put(ss, PROTOCOL_STATS_ID, NewProtocolStats)

(* getOrCreateProtocolStats: the store after the call. *)
getOrCreateProtocolStats(ss) ==
    IF PROTOCOL_STATS_ID \in DOMAIN ss THEN ss
    ELSE Put(ss, PROTOCOL_STATS_ID, NewProtocolStats)

---------------------------------------------------------------------------
(* Transaction rotation *)

(* The probe loop: load keys i, i+1, ... until the first missing key. *)
RECURSIVE ProbeLen(_, _)
ProbeLen(txs, i) == IF i \in DOMAIN txs THEN ProbeLen(txs, i + 1) ELSE i

(* The comparator with its signs exchanged: newest first. *)
SortedIndexNewestFirst(txs, n, k) ==
    Cardinality({j \in 0..(n - 1) :
        \/ txs[j].timestamp > txs[k].timestamp
        \/ (txs[j].timestamp = txs[k].timestamp /\ j < k)})

(* The comparator alone, without the order the stable sort keeps among   *)
(* records it finds equal.                                               *)
SortedIndexByTimestampOnly(txs, n, k) ==
    Cardinality({j \in 0..(n - 1) : txs[j].timestamp < txs[k].timestamp})

(* Index of probed record k in the array sorted by timestamp.  The sort  *)
(* is stable, so records with equal timestamps keep their probe order.   *)
SortedIndex(txs, n, k) ==
    Cardinality({j \in 0..(n - 1) :
        \/ txs[j].timestamp < txs[k].timestamp
        \/ (txs[j].timestamp = txs[k].timestamp /\ j < k)})

rotateTransactions(txs) ==
    LET n == ProbeLen(txs, 0)
    IN  IF n >= MAX_TRANSACTIONS
        THEN LET victims == {k \in 0..(n - 1) :
                               SortedIndex(txs, n, k) < n - MAX_TRANSACTIONS + 1}
             IN  [x \in DOMAIN txs \ victims |-> txs[x]]
        ELSE txs

---------------------------------------------------------------------------
(* Prize rotation *)

(* The scan without its limit of ROTATE_SCAN_DAYS iterations. *)
ScannedDaysToZero(oldestDayToKeep) == 0..(oldestDayToKeep - 1)

(* The days the rotation loop visits: dayToCheck = oldestDayToKeep - (i+1) *)
(* for i = 0 .. ROTATE_SCAN_DAYS - 1, stopping at the first negative day.  *)
ScannedDays(oldestDayToKeep) ==
    {d \in (oldestDayToKeep - ROTATE_SCAN_DAYS)..(oldestDayToKeep - 1) :
        d >= 0}

(* Every visited day that holds a record loses it. *)
RotateLoop(prizes, oldestDayToKeep) ==
    [d \in DOMAIN prizes \ ScannedDays(oldestDayToKeep) |-> prizes[d]]

rotateLotteryPrizes(prizes, currentDay) ==
    RotateLoop(prizes, currentDay - (MAX_PRIZES - 1))

rotateAuctionPrizes(prizes, currentDay) ==
    RotateLoop(prizes, currentDay - (MAX_PRIZES - 1))


---------------------------------------------------------------------------
(* Histories (not read by any handler) *)

(* winDays: the day of the last LotteryWon event, and whether the days  *)
(* of the LotteryWon events so far were strictly increasing.             *)
NoWinDays == [last |-> NullInt, increasing |-> TRUE]

NextWinDays(day) ==
    [last |-> day,
     increasing |-> winDays.increasing /\ day > winDays.last]

---------------------------------------------------------------------------
(* Prize projector *)

handleLotteryWon(day, winner, amount) ==
    LET rotated == rotateLotteryPrizes(lotteryPrizes, day)
        us == getOrCreateUser(users, winner)
        ss == getOrCreateProtocolStats(stats)
        prize == [day |-> day, winner |-> winner, amount |-> amount,
                  claimed |-> FALSE, expired |-> FALSE,
                  timestamp |-> BlockTimestamp(block), blockNumber |-> block,
                  txHash |-> TxHash(block), user |-> us[winner].id,
                  claimTimestamp |-> NullInt, claimTxHash |-> NullInt,
                  expiryTimestamp |-> NullInt, expiryTxHash |-> NullInt,
                  beneficiary |-> NullAddress]
    IN  /\ users' = Put(us, winner,
             [us[winner] EXCEPT
                 !.lotteryWinCount = @ + 1,
                 !.totalLotteryWinnings = @ + amount])
        /\ stats' = Put(ss, PROTOCOL_STATS_ID,
             [ss[PROTOCOL_STATS_ID] EXCEPT
                 !.lotteryCount = @ + 1,
                 !.totalLotteryPrizes = @ + amount])
        /\ lotteryPrizes' = Put(rotated, day, prize)
        /\ winDays' = NextWinDays(day)
        /\ lastEvent' = [kind |-> "LotteryWon", day |-> day,
                         winner |-> winner, amount |-> amount]
        /\ UNCHANGED <<transactions, auctionPrizes, bids, block, eligible>>

handleAuctionWon(day, winner, stratAmount, monPaid) ==
    LET rotated == rotateAuctionPrizes(auctionPrizes, day)
        us == getOrCreateUser(users, winner)
        ss == getOrCreateProtocolStats(stats)
        prize == [day |-> day, winner |-> winner, stratAmount |-> stratAmount,
                  monPaid |-> monPaid, claimed |-> FALSE, expired |-> FALSE,
                  timestamp |-> BlockTimestamp(block), blockNumber |-> block,
                  txHash |-> TxHash(block), bidCount |-> 0,
                  user |-> us[winner].id,
                  claimTimestamp |-> NullInt, claimTxHash |-> NullInt,
                  expiryTimestamp |-> NullInt, expiryTxHash |-> NullInt,
                  beneficiary |-> NullAddress]
    IN  /\ users' = Put(us, winner,
             [us[winner] EXCEPT
                 !.auctionWinCount = @ + 1,
                 !.totalAuctionWinnings = @ + stratAmount,
                 !.totalAuctionSpent = @ + monPaid])
        /\ stats' = Put(ss, PROTOCOL_STATS_ID,
             [ss[PROTOCOL_STATS_ID] EXCEPT
                 !.auctionCount = @ + 1,
                 !.totalAuctionPrizes = @ + stratAmount])
        /\ auctionPrizes' = Put(rotated, day, prize)
        /\ lastEvent' = [kind |-> "AuctionWon", day |-> day, winner |-> winner,
                         stratAmount |-> stratAmount, monPaid |-> monPaid]
        /\ UNCHANGED <<transactions, lotteryPrizes, bids, block, eligible,
                       winDays>>

(* A start that saves its placeholder whether or not the day has a      *)
(* record.                                                               *)
handleAuctionStartedOverwriting(day, stratAmount) ==
    /\ auctionPrizes' =
         Put(auctionPrizes, day,
             [day |-> day, winner |-> ADDRESS_ZERO,
              stratAmount |-> stratAmount, monPaid |-> 0,
              claimed |-> FALSE, expired |-> FALSE,
              timestamp |-> BlockTimestamp(block), blockNumber |-> block,
              txHash |-> TxHash(block), bidCount |-> 0,
              user |-> ADDRESS_ZERO,
              claimTimestamp |-> NullInt, claimTxHash |-> NullInt,
              expiryTimestamp |-> NullInt, expiryTxHash |-> NullInt,
              beneficiary |-> NullAddress])
    /\ lastEvent' = [kind |-> "AuctionStarted", day |-> day,
                     stratAmount |-> stratAmount]
    /\ UNCHANGED <<stats, users, transactions, lotteryPrizes, bids, block,
                   eligible, winDays>>

(* A start that writes its placeholder under the day's lottery id. *)
handleAuctionStartedAsLottery(day, stratAmount) ==
    /\ lotteryPrizes' =
         IF day \in DOMAIN lotteryPrizes THEN lotteryPrizes
         ELSE Put(lotteryPrizes, day,
                [day |-> day, winner |-> ADDRESS_ZERO,
                 amount |-> stratAmount,
                 claimed |-> FALSE, expired |-> FALSE,
                 timestamp |-> BlockTimestamp(block), blockNumber |-> block,
                 txHash |-> TxHash(block), user |-> ADDRESS_ZERO,
                 claimTimestamp |-> NullInt, claimTxHash |-> NullInt,
                 expiryTimestamp |-> NullInt, expiryTxHash |-> NullInt,
                 beneficiary |-> NullAddress])
    /\ lastEvent' = [kind |-> "AuctionStarted", day |-> day,
                     stratAmount |-> stratAmount]
    /\ UNCHANGED <<stats, users, transactions, auctionPrizes, bids, block,
                   eligible, winDays>>

handleAuctionStarted(day, stratAmount) ==
    /\ auctionPrizes' =
         IF day \in DOMAIN auctionPrizes THEN auctionPrizes
         ELSE Put(auctionPrizes, day,
                [day |-> day, winner |-> ADDRESS_ZERO,
                 stratAmount |-> stratAmount, monPaid |-> 0,
                 claimed |-> FALSE, expired |-> FALSE,
                 timestamp |-> BlockTimestamp(block), blockNumber |-> block,
                 txHash |-> TxHash(block), bidCount |-> 0,
                 user |-> ADDRESS_ZERO,
                 claimTimestamp |-> NullInt, claimTxHash |-> NullInt,
                 expiryTimestamp |-> NullInt, expiryTxHash |-> NullInt,
                 beneficiary |-> NullAddress])
    /\ lastEvent' = [kind |-> "AuctionStarted", day |-> day,
                     stratAmount |-> stratAmount]
    /\ UNCHANGED <<stats, users, transactions, lotteryPrizes, bids, block,
                   eligible, winDays>>

(* A bid that creates the day's record when it finds none. *)
handleBidPlacedCreating(day, bidder, amount, logIndex) ==
    LET id == <<TxHash(block), logIndex>>
        bid == [bidder |-> bidder, amount |-> amount, day |-> day,
                timestamp |-> BlockTimestamp(block), blockNumber |-> block,
                txHash |-> TxHash(block), auction |-> day]
    IN  /\ auctionPrizes' =
             IF day \in DOMAIN auctionPrizes
             THEN Put(auctionPrizes, day,
                      [auctionPrizes[day] EXCEPT !.bidCount = @ + 1])
             ELSE Put(auctionPrizes, day,
                      [day |-> day, winner |-> ADDRESS_ZERO,
                       stratAmount |-> 0, monPaid |-> 0,
                       claimed |-> FALSE, expired |-> FALSE,
                       timestamp |-> BlockTimestamp(block),
                       blockNumber |-> block, txHash |-> TxHash(block),
                       bidCount |-> 1, user |-> ADDRESS_ZERO,
                       claimTimestamp |-> NullInt, claimTxHash |-> NullInt,
                       expiryTimestamp |-> NullInt, expiryTxHash |-> NullInt,
                       beneficiary |-> NullAddress])
        /\ bids' = Put(bids, id, bid)
        /\ lastEvent' = [kind |-> "BidPlaced", day |-> day, bidder |-> bidder,
                         amount |-> amount, logIndex |-> logIndex]
        /\ UNCHANGED <<stats, users, transactions, lotteryPrizes, block,
                       eligible, winDays>>

handleBidPlaced(day, bidder, amount, logIndex) ==
    LET id == <<TxHash(block), logIndex>>
        bid == [bidder |-> bidder, amount |-> amount, day |-> day,
                timestamp |-> BlockTimestamp(block), blockNumber |-> block,
                txHash |-> TxHash(block), auction |-> day]
    IN  /\ auctionPrizes' =
             IF day \in DOMAIN auctionPrizes
             THEN Put(auctionPrizes, day,
                      [auctionPrizes[day] EXCEPT !.bidCount = @ + 1])
             ELSE auctionPrizes
        /\ bids' = Put(bids, id, bid)
        /\ lastEvent' = [kind |-> "BidPlaced", day |-> day, bidder |-> bidder,
                         amount |-> amount, logIndex |-> logIndex]
        /\ UNCHANGED <<stats, users, transactions, lotteryPrizes, block,
                       eligible, winDays>>

---------------------------------------------------------------------------
(* Claim / expiry correlator *)

(* The conditions under which the scan loops take record i. *)
(* The claim condition without its comparison of the amount. *)
LotteryClaimMatchAnyAmount(prizes, i, winner, amount) ==
    /\ i \in DOMAIN prizes
    /\ prizes[i].winner = winner
    /\ ~prizes[i].claimed
    /\ ~prizes[i].expired

LotteryClaimMatch(prizes, i, winner, amount) ==
    /\ i \in DOMAIN prizes
    /\ prizes[i].winner = winner
    /\ prizes[i].amount = amount
    /\ ~prizes[i].claimed
    /\ ~prizes[i].expired

(* The auction claim condition without its comparison of the amount. *)
AuctionClaimMatchAnyAmount(prizes, i, winner, amount) ==
    /\ i \in DOMAIN prizes
    /\ prizes[i].winner = winner
    /\ ~prizes[i].claimed
    /\ ~prizes[i].expired

AuctionClaimMatch(prizes, i, winner, amount) ==
    /\ i \in DOMAIN prizes
    /\ prizes[i].winner = winner
    /\ prizes[i].stratAmount = amount
    /\ ~prizes[i].claimed
    /\ ~prizes[i].expired

(* The expiry condition without its test of the claimed flag. *)
ExpiryMatchIgnoringClaimed(prizes, i, previousWinner) ==
    /\ i \in DOMAIN prizes
    /\ prizes[i].winner = previousWinner
    /\ ~prizes[i].expired

(* The expiry condition without its comparison of the winner. *)
ExpiryMatchAnyWinner(prizes, i, previousWinner) ==
    /\ i \in DOMAIN prizes
    /\ ~prizes[i].claimed
    /\ ~prizes[i].expired

ExpiryMatch(prizes, i, previousWinner) ==
    /\ i \in DOMAIN prizes
    /\ prizes[i].winner = previousWinner
    /\ ~prizes[i].claimed
    /\ ~prizes[i].expired

(* The last match instead of the first. *)
MaxOf(S) == CHOOSE x \in S : \A y \in S : y <= x

Min(S) == CHOOSE x \in S : \A y \in S : x <= y

ScanWindow == 0..(CLAIM_SCAN_DAYS - 1)

(* The lottery scan skipped: it finds nothing. *)
FindLotteryClaimSkipped(prizes, winner, amount) == CLAIM_SCAN_DAYS

(* The value of i when the loop ends: the first matching day of the     *)
(* window (break), or CLAIM_SCAN_DAYS when no day matches.              *)
FindLotteryClaim(prizes, winner, amount) ==
    LET hits == {i \in ScanWindow :
                    LotteryClaimMatch(prizes, i, winner, amount)}
    IN  IF hits = {} THEN CLAIM_SCAN_DAYS ELSE Min(hits)

FindAuctionClaim(prizes, winner, amount) ==
    LET hits == {i \in ScanWindow :
                    AuctionClaimMatch(prizes, i, winner, amount)}
    IN  IF hits = {} THEN CLAIM_SCAN_DAYS ELSE Min(hits)

FindExpiry(prizes, previousWinner) ==
    LET hits == {i \in ScanWindow : ExpiryMatch(prizes, i, previousWinner)}
    IN  IF hits = {} THEN CLAIM_SCAN_DAYS ELSE Min(hits)

handlePrizeClaimed(winner, amount) ==
    LET li == FindLotteryClaim(lotteryPrizes, winner, amount)
        ai == FindAuctionClaim(auctionPrizes, winner, amount)
        ss == getOrCreateProtocolStats(stats)
        foundLottery == li < CLAIM_SCAN_DAYS
        foundAuction == ~foundLottery /\ ai < CLAIM_SCAN_DAYS
    IN  /\ lotteryPrizes' =
             IF foundLottery
             THEN Put(lotteryPrizes, li,
                      [lotteryPrizes[li] EXCEPT
                          !.claimed = TRUE,
                          !.claimTimestamp = BlockTimestamp(block),
                          !.claimTxHash = TxHash(block)])
             ELSE lotteryPrizes
        /\ auctionPrizes' =
             IF foundAuction
             THEN Put(auctionPrizes, ai,
                      [auctionPrizes[ai] EXCEPT
                          !.claimed = TRUE,
                          !.claimTimestamp = BlockTimestamp(block),
                          !.claimTxHash = TxHash(block)])
             ELSE auctionPrizes
        /\ stats' =
             IF foundLottery
             THEN Put(ss, PROTOCOL_STATS_ID,
                      [ss[PROTOCOL_STATS_ID] EXCEPT
                          !.totalLotteryClaimed = @ + amount])
             ELSE IF foundAuction
             THEN Put(ss, PROTOCOL_STATS_ID,
                      [ss[PROTOCOL_STATS_ID] EXCEPT
                          !.totalAuctionClaimed = @ + amount])
             ELSE stats
        /\ lastEvent' = [kind |-> "PrizeClaimed", winner |-> winner,
                         amount |-> amount,
                         hit |-> IF foundLottery THEN "lottery"
                                 ELSE IF foundAuction THEN "auction"
                                 ELSE "none",
                         day |-> IF foundLottery THEN li ELSE ai]
        /\ UNCHANGED <<users, transactions, bids, block, eligible, winDays>>

(* An expiry that removes the lottery record it finds instead of        *)
(* marking it.                                                           *)
handleBeneficiaryFundedRemoving(previousWinner, beneficiary, amount) ==
    LET li == FindExpiry(lotteryPrizes, previousWinner)
    IN  /\ lotteryPrizes' =
             [d \in DOMAIN lotteryPrizes \ {li} |-> lotteryPrizes[d]]
        /\ lastEvent' = [kind |-> "BeneficiaryFunded",
                         previousWinner |-> previousWinner,
                         beneficiary |-> beneficiary, amount |-> amount,
                         hit |-> IF li < CLAIM_SCAN_DAYS THEN "lottery"
                                 ELSE "none",
                         day |-> li]
        /\ UNCHANGED <<stats, users, transactions, auctionPrizes, bids,
                       block, eligible, winDays>>

handleBeneficiaryFunded(previousWinner, beneficiary, amount) ==
    LET li == FindExpiry(lotteryPrizes, previousWinner)
        ai == FindExpiry(auctionPrizes, previousWinner)
        ss == getOrCreateProtocolStats(stats)
        foundLottery == li < CLAIM_SCAN_DAYS
        foundAuction == ~foundLottery /\ ai < CLAIM_SCAN_DAYS
    IN  /\ lotteryPrizes' =
             IF foundLottery
             THEN Put(lotteryPrizes, li,
                      [lotteryPrizes[li] EXCEPT
                          !.expired = TRUE,
                          !.expiryTimestamp = BlockTimestamp(block),
                          !.expiryTxHash = TxHash(block),
                          !.beneficiary = beneficiary])
             ELSE lotteryPrizes
        /\ auctionPrizes' =
             IF foundAuction
             THEN Put(auctionPrizes, ai,
                      [auctionPrizes[ai] EXCEPT
                          !.expired = TRUE,
                          !.expiryTimestamp = BlockTimestamp(block),
                          !.expiryTxHash = TxHash(block),
                          !.beneficiary = beneficiary])
             ELSE auctionPrizes
        /\ stats' =
             IF foundLottery
             THEN Put(ss, PROTOCOL_STATS_ID,
                      [ss[PROTOCOL_STATS_ID] EXCEPT
                          !.totalLotteryExpired = @ + lotteryPrizes[li].amount])
             ELSE IF foundAuction
             THEN Put(ss, PROTOCOL_STATS_ID,
                      [ss[PROTOCOL_STATS_ID] EXCEPT
                          !.totalAuctionExpired =
                              @ + auctionPrizes[ai].stratAmount])
             ELSE stats
        /\ lastEvent' = [kind |-> "BeneficiaryFunded",
                         previousWinner |-> previousWinner,
                         beneficiary |-> beneficiary, amount |-> amount,
                         hit |-> IF foundLottery THEN "lottery"
                                 ELSE IF foundAuction THEN "auction"
                                 ELSE "none",
                         day |-> IF foundLottery THEN li ELSE ai]
        /\ UNCHANGED <<users, transactions, bids, block, eligible, winDays>>

---------------------------------------------------------------------------
(* Transaction projector *)

handleMinted(to, monAmount, stratAmount, fee) ==
    LET rotated == rotateTransactions(transactions)
        ss == getOrCreateProtocolStats(stats)
        id == ss[PROTOCOL_STATS_ID].transactionCounter
        us == getOrCreateUser(users, to)
        transaction ==
            [type |-> "MINT", user |-> to, monAmount |-> monAmount,
             stratAmount |-> stratAmount, fee |-> fee,
             timestamp |-> BlockTimestamp(block), blockNumber |-> block,
             txHash |-> TxHash(block), userEntity |-> us[to].id]
    IN  /\ users' = Put(us, to,
             [us[to] EXCEPT
                 !.totalMinted = @ + stratAmount,
                 !.transactionCount = @ + 1])
        /\ stats' = Put(ss, PROTOCOL_STATS_ID,
             [ss[PROTOCOL_STATS_ID] EXCEPT
                 !.totalMinted = @ + stratAmount,
                 !.totalFees = @ + fee,
                 !.totalTransactions = @ + 1,
                 !.transactionCounter = @ + 1])
        /\ transactions' = Put(rotated, id, transaction)
        /\ eligible' = Append(eligible, BlockTimestamp(block))
        /\ lastEvent' = [kind |-> "Minted", to |-> to,
                         monAmount |-> monAmount,
                         stratAmount |-> stratAmount, fee |-> fee]
        /\ UNCHANGED <<lotteryPrizes, auctionPrizes, bids, block, winDays>>

handleRedeemed(from, monAmount, stratAmount, fee) ==
    LET rotated == rotateTransactions(transactions)
        ss == getOrCreateProtocolStats(stats)
        id == ss[PROTOCOL_STATS_ID].transactionCounter
        us == getOrCreateUser(users, from)
        transaction ==
            [type |-> "REDEEM", user |-> from, monAmount |-> monAmount,
             stratAmount |-> stratAmount, fee |-> fee,
             timestamp |-> BlockTimestamp(block), blockNumber |-> block,
             txHash |-> TxHash(block), userEntity |-> us[from].id]
    IN  /\ users' = Put(us, from,
             [us[from] EXCEPT
                 !.totalRedeemed = @ + stratAmount,
                 !.transactionCount = @ + 1])
        /\ stats' = Put(ss, PROTOCOL_STATS_ID,
             [ss[PROTOCOL_STATS_ID] EXCEPT
                 !.totalRedeemed = @ + stratAmount,
                 !.totalFees = @ + fee,
                 !.totalTransactions = @ + 1,
                 !.transactionCounter = @ + 1])
        /\ transactions' = Put(rotated, id, transaction)
        /\ eligible' = Append(eligible, BlockTimestamp(block))
        /\ lastEvent' = [kind |-> "Redeemed", from |-> from,
                         monAmount |-> monAmount,
                         stratAmount |-> stratAmount, fee |-> fee]
        /\ UNCHANGED <<lotteryPrizes, auctionPrizes, bids, block, winDays>>

(* The fee-pool test inverted. *)
TransferIgnoredInverted(from, to) ==
    \/ to = FEES_POOL_ADDRESS
    \/ from = ADDRESS_ZERO

(* Without the test of the zero source. *)
TransferIgnoredNoZeroTest(from, to) == to # FEES_POOL_ADDRESS

(* Without the test of the destination. *)
TransferIgnoredOnlyZeroSource(from, to) == from = ADDRESS_ZERO

(* The two early returns of handleTransfer. *)
TransferIgnored(from, to) ==
    \/ to # FEES_POOL_ADDRESS
    \/ from = ADDRESS_ZERO

(* A fee-pool transfer booked as a mint of its value. *)
handleTransferAsMint(from, to, value) ==
    LET rotated == rotateTransactions(transactions)
        ss == getOrCreateProtocolStats(stats)
        id == ss[PROTOCOL_STATS_ID].transactionCounter
        us == getOrCreateUser(users, from)
        transaction ==
            [type |-> "TRANSFER", user |-> from, monAmount |-> 0,
             stratAmount |-> value, fee |-> 0,
             timestamp |-> BlockTimestamp(block), blockNumber |-> block,
             txHash |-> TxHash(block), userEntity |-> us[from].id]
    IN  /\ lastEvent' = [kind |-> "Transfer", from |-> from, to |-> to,
                         value |-> value]
        /\ IF TransferIgnored(from, to)
           THEN UNCHANGED <<stats, users, transactions, lotteryPrizes,
                            auctionPrizes, bids, block, eligible, winDays>>
           ELSE /\ users' = Put(us, from,
                     [us[from] EXCEPT !.totalMinted = @ + value,
                                      !.transactionCount = @ + 1])
                /\ stats' = Put(ss, PROTOCOL_STATS_ID,
                     [ss[PROTOCOL_STATS_ID] EXCEPT
                         !.totalMinted = @ + value,
                         !.totalTransactions = @ + 1,
                         !.transactionCounter = @ + 1])
                /\ transactions' = Put(rotated, id, transaction)
                /\ eligible' = Append(eligible, BlockTimestamp(block))
                /\ UNCHANGED <<lotteryPrizes, auctionPrizes, bids, block,
                               winDays>>

handleTransfer(from, to, value) ==
    LET rotated == rotateTransactions(transactions)
        ss == getOrCreateProtocolStats(stats)
        id == ss[PROTOCOL_STATS_ID].transactionCounter
        us == getOrCreateUser(users, from)
        transaction ==
            [type |-> "TRANSFER", user |-> from, monAmount |-> 0,
             stratAmount |-> value, fee |-> 0,
             timestamp |-> BlockTimestamp(block), blockNumber |-> block,
             txHash |-> TxHash(block), userEntity |-> us[from].id]
    IN  /\ lastEvent' = [kind |-> "Transfer", from |-> from, to |-> to,
                         value |-> value]
        /\ IF TransferIgnored(from, to)
           THEN UNCHANGED <<stats, users, transactions, lotteryPrizes,
                            auctionPrizes, bids, block, eligible, winDays>>
           ELSE /\ users' = Put(us, from,
                     [us[from] EXCEPT !.transactionCount = @ + 1])
                /\ stats' = Put(ss, PROTOCOL_STATS_ID,
                     [ss[PROTOCOL_STATS_ID] EXCEPT
                         !.totalTransactions = @ + 1,
                         !.transactionCounter = @ + 1])
                /\ transactions' = Put(rotated, id, transaction)
                /\ eligible' = Append(eligible, BlockTimestamp(block))
                /\ UNCHANGED <<lotteryPrizes, auctionPrizes, bids, block,
                               winDays>>

---------------------------------------------------------------------------
(* The event source *)

Init ==
    /\ stats = EmptyStore
    /\ users = EmptyStore
    /\ transactions = EmptyStore
    /\ lotteryPrizes = EmptyStore
    /\ auctionPrizes = EmptyStore
    /\ bids = EmptyStore
    /\ block = 0
    /\ lastEvent = [kind |-> "none"]
    /\ eligible = <<>>
    /\ winDays = NoWinDays

(* Bounds of the explored runs *)
MaxBlock == 1
MaxCounter == 12
MaxRedeemed == 1
MaxTransfers == 1

(* A field of ProtocolStats, 0 while the singleton does not exist yet. *)
StatsField(f) ==
    IF PROTOCOL_STATS_ID \in DOMAIN stats THEN stats[PROTOCOL_STATS_ID][f]
    ELSE 0

UserField(address, f) ==
    IF address \in DOMAIN users THEN users[address][f] ELSE 0

(* The source delivers events in block order: the block only advances. *)
NewBlock ==
    /\ block < MaxBlock
    /\ block' = block + 1
    /\ UNCHANGED <<stats, users, transactions, lotteryPrizes, auctionPrizes,
                   bids, lastEvent, eligible, winDays>>

(* Inputs of the transaction events *)
Minter == "0x00000000000000000000000000000000000000aa"
Sender == "0x00000000000000000000000000000000000000bb"
TransferInputs ==
    {<<Sender, FEES_POOL_ADDRESS, 1>>, <<ADDRESS_ZERO, FEES_POOL_ADDRESS, 1>>,
     <<Sender, Minter, 1>>, <<ADDRESS_ZERO, Minter, 2>>}

Minted ==
    /\ StatsField("transactionCounter") < MaxCounter
    /\ handleMinted(Minter, 3, 2, 1)

Redeemed ==
    /\ StatsField("transactionCounter") < MaxCounter
    /\ StatsField("totalRedeemed") < MaxRedeemed
    /\ handleRedeemed(Minter, 1, 1, 1)

Transfer ==
    /\ StatsField("transactionCounter") < MaxCounter
    /\ UserField(Sender, "transactionCount") < MaxTransfers
    /\ \E ft \in TransferInputs : handleTransfer(ft[1], ft[2], ft[3])

NextTx == Minted \/ Redeemed \/ Transfer \/ NewBlock

SpecTx == Init /\ [][NextTx]_vars

---------------------------------------------------------------------------
(* Prize events with days in any order *)

MaxLotteries == 2
MaxAuctions == 1

Alice == "0x00000000000000000000000000000000000000a1"
Bob == "0x00000000000000000000000000000000000000b0"
Charity == "0x00000000000000000000000000000000000000c4"
Winners == {Alice}
Claimants == {Alice, Bob}
Claims == {<<Alice, 1>>, <<Alice, 2>>, <<Bob, 2>>}
PrizeAmounts == {1, 2}
PrizeDays == {0, 1, 30}

LotteryWon ==
    /\ StatsField("lotteryCount") < MaxLotteries
    /\ \E day \in PrizeDays, winner \in Winners, amount \in PrizeAmounts :
          handleLotteryWon(day, winner, amount)

AuctionWon ==
    /\ StatsField("auctionCount") < MaxAuctions
    /\ \E day \in PrizeDays, winner \in Winners :
          handleAuctionWon(day, winner, 2, 3)

PrizeClaimed ==
    \E claim \in Claims : handlePrizeClaimed(claim[1], claim[2])

BeneficiaryFunded ==
    \E previousWinner \in Claimants :
        handleBeneficiaryFunded(previousWinner, Charity, 1)

Next ==
    \/ LotteryWon
    \/ AuctionWon
    \/ PrizeClaimed
    \/ BeneficiaryFunded

Spec == Init /\ [][Next]_vars

---------------------------------------------------------------------------
(* Prize events in day order: one block per day, every event carries    *)
(* the current day.                                                      *)

MaxDay == 7

NewDay ==
    /\ block < MaxDay
    /\ block' = block + 1
    /\ UNCHANGED <<stats, users, transactions, lotteryPrizes, auctionPrizes,
                   bids, lastEvent, eligible, winDays>>

DayLotteryWon ==
    /\ StatsField("lotteryCount") < MaxLotteries
    /\ handleLotteryWon(block, Alice, 1)

DayAuctionWon ==
    /\ StatsField("auctionCount") < MaxAuctions
    /\ handleAuctionWon(block, Alice, 2, 3)

DayAuctionStarted ==
    /\ block \notin DOMAIN auctionPrizes
    /\ handleAuctionStarted(block, 1)

NextDays == DayLotteryWon \/ DayAuctionWon \/ DayAuctionStarted \/ NewDay

SpecDays == Init /\ [][NextDays]_vars

---------------------------------------------------------------------------
(* LotteryWon events with strictly increasing days and gaps between them *)

MaxGapDay == 110
DayGaps == {1, 7, 100, 107}

FirstLotteryWon ==
    /\ winDays.last = NullInt
    /\ handleLotteryWon(0, Alice, 1)

LaterLotteryWon ==
    /\ winDays.last # NullInt
    /\ \E gap \in DayGaps :
          /\ winDays.last + gap <= MaxGapDay
          /\ handleLotteryWon(winDays.last + gap, Alice, 1)

NextGaps == FirstLotteryWon \/ LaterLotteryWon

SpecGaps == Init /\ [][NextGaps]_vars

---------------------------------------------------------------------------
(* All nine events together.  The transaction events arrive in the      *)
(* order Minted, Redeemed, Transfer, Minted, ...; the prize events are   *)
(* those of one winner in protocol order (the k-th lottery is won on day *)
(* MAX_PRIZES * k; the auction of day d starts, takes its bids and is    *)
(* won before the auction of day d + 1 starts).                          *)

MaxBids == 1

LotteryDay == MAX_PRIZES * StatsField("lotteryCount")
AuctionDay == StatsField("auctionCount")

AnyMinted ==
    /\ StatsField("transactionCounter") < MaxCounter
    /\ StatsField("transactionCounter") % 3 = 0
    /\ handleMinted(Alice, 3, 2, 1)

AnyRedeemed ==
    /\ StatsField("transactionCounter") < MaxCounter
    /\ StatsField("transactionCounter") % 3 = 1
    /\ handleRedeemed(Alice, 1, 1, 1)

AnyTransfer ==
    /\ StatsField("transactionCounter") < MaxCounter
    /\ StatsField("transactionCounter") % 3 = 2
    /\ \E to \in {FEES_POOL_ADDRESS, Alice} : handleTransfer(Sender, to, 1)

AnyLotteryWon ==
    /\ StatsField("lotteryCount") < MaxLotteries
    /\ handleLotteryWon(LotteryDay, Alice, 1)

AnyAuctionStarted ==
    /\ AuctionDay \notin DOMAIN auctionPrizes
    /\ handleAuctionStarted(AuctionDay, 2)

AnyBidPlaced ==
    /\ Cardinality(DOMAIN bids) < MaxBids
    /\ handleBidPlaced(AuctionDay, Alice, 3, Cardinality(DOMAIN bids))

AnyAuctionWon ==
    /\ StatsField("auctionCount") < MaxAuctions
    /\ handleAuctionWon(AuctionDay, Alice, 2, 3)

AnyPrizeClaimed ==
    \E amount \in PrizeAmounts : handlePrizeClaimed(Alice, amount)

AnyBeneficiaryFunded == handleBeneficiaryFunded(Alice, Charity, 1)

NextAll ==
    \/ AnyMinted
    \/ AnyRedeemed
    \/ AnyTransfer
    \/ AnyLotteryWon
    \/ AnyAuctionStarted
    \/ AnyBidPlaced
    \/ AnyAuctionWon
    \/ AnyPrizeClaimed
    \/ AnyBeneficiaryFunded

SpecAll == Init /\ [][NextAll]_vars

---------------------------------------------------------------------------
(* Win events of both kinds for days in any order, the days chosen at    *)
(* the ends of the range a rotation scans.                               *)

MaxWins == 2

WinDaySet == {0, MAX_PRIZES - 1, MAX_PRIZES,
              ROTATE_SCAN_DAYS + MAX_PRIZES - 1, ROTATE_SCAN_DAYS + MAX_PRIZES,
              ROTATE_SCAN_DAYS + 2 * MAX_PRIZES - 1}

WinLotteryWon ==
    /\ StatsField("lotteryCount") < MaxWins
    /\ \E day \in WinDaySet : handleLotteryWon(day, Alice, 1)

WinAuctionWon ==
    /\ StatsField("auctionCount") < MaxWins
    /\ \E day \in WinDaySet : handleAuctionWon(day, Alice, 2, 3)

NextWins == WinLotteryWon \/ WinAuctionWon

SpecWins == Init /\ [][NextWins]_vars

---------------------------------------------------------------------------
(* The auction events for two days in any order, with claims and         *)
(* expiries that carry the winner's address or the zero address.         *)

AuctionDays == {0, 1}
AnyWinner == {Alice, ADDRESS_ZERO}

AuctionStartedAnyDay ==
    \E day \in AuctionDays : handleAuctionStarted(day, 2)

BidPlacedAnyDay ==
    /\ Cardinality(DOMAIN bids) < MaxBids
    /\ \E day \in AuctionDays :
          handleBidPlaced(day, Bob, 3, Cardinality(DOMAIN bids))

AuctionWonAnyDay ==
    /\ StatsField("auctionCount") < MaxAuctions
    /\ \E day \in AuctionDays : handleAuctionWon(day, Alice, 2, 3)

PrizeClaimedAnyWinner ==
    \E winner \in AnyWinner : handlePrizeClaimed(winner, 2)

BeneficiaryFundedAnyWinner ==
    \E previousWinner \in AnyWinner :
        handleBeneficiaryFunded(previousWinner, Charity, 1)

NextAuction ==
    \/ AuctionStartedAnyDay
    \/ BidPlacedAnyDay
    \/ AuctionWonAnyDay
    \/ PrizeClaimedAnyWinner
    \/ BeneficiaryFundedAnyWinner

SpecAuction == Init /\ [][NextAuction]_vars

---------------------------------------------------------------------------
(* The nine events with wins that lie further apart than the rotation    *)
(* scan reaches, so that a win's scan runs its full length.              *)

FarLotteryDay ==
    (ROTATE_SCAN_DAYS + MAX_PRIZES) * StatsField("lotteryCount")
FarAuctionDay ==
    (ROTATE_SCAN_DAYS + MAX_PRIZES) * StatsField("auctionCount")

FarLotteryWon ==
    /\ StatsField("lotteryCount") < MaxLotteries
    /\ handleLotteryWon(FarLotteryDay, Alice, 1)

FarAuctionWon ==
    /\ StatsField("auctionCount") < MaxAuctions
    /\ handleAuctionWon(FarAuctionDay, Alice, 2, 3)

NextLoops ==
    \/ AnyMinted
    \/ AnyRedeemed
    \/ AnyTransfer
    \/ FarLotteryWon
    \/ AnyAuctionStarted
    \/ AnyBidPlaced
    \/ FarAuctionWon
    \/ AnyPrizeClaimed
    \/ AnyBeneficiaryFunded

SpecLoops == Init /\ [][NextLoops]_vars

---------------------------------------------------------------------------
(* Transaction events arriving at a store that holds more contiguous     *)
(* records from key 0 than MAX_TRANSACTIONS: the probe of                *)
(* rotateTransactions finds MAX_TRANSACTIONS + 1 records.  The records   *)
(* are those of CorruptLen Minted events whose rotations did not run.    *)

CorruptLen == MAX_TRANSACTIONS + 1

InitCorrupt ==
    /\ \E ts \in [0..(CorruptLen - 1) -> 0..MaxBlock] :
          transactions =
             [k \in 0..(CorruptLen - 1) |->
                [type |-> "MINT", user |-> Minter, monAmount |-> 3,
                 stratAmount |-> 2, fee |-> 1,
                 timestamp |-> ts[k], blockNumber |-> ts[k],
                 txHash |-> ts[k], userEntity |-> Minter]]
    /\ stats = Put(EmptyStore, PROTOCOL_STATS_ID,
                   [NewProtocolStats EXCEPT
                       !.totalMinted = 2 * CorruptLen,
                       !.totalFees = CorruptLen,
                       !.totalTransactions = CorruptLen,
                       !.transactionCounter = CorruptLen])
    /\ users = Put(EmptyStore, Minter,
                   [NewUser(Minter) EXCEPT
                       !.totalMinted = 2 * CorruptLen,
                       !.transactionCount = CorruptLen])
    /\ lotteryPrizes = EmptyStore
    /\ auctionPrizes = EmptyStore
    /\ bids = EmptyStore
    /\ block = MaxBlock
    /\ lastEvent = [kind |-> "none"]
    /\ eligible = <<>>
    /\ winDays = NoWinDays

NextCorrupt == Minted \/ Redeemed \/ Transfer

SpecCorrupt == InitCorrupt /\ [][NextCorrupt]_vars

---------------------------------------------------------------------------
(* Properties *)

LiveTransactions == DOMAIN transactions

(* C1: after any sequence of Minted, Redeemed and Transfer events the    *)
(* number of live Transaction records never exceeds MAX_TRANSACTIONS.    *)
C1_TransactionCap == Cardinality(LiveTransactions) <= MAX_TRANSACTIONS

(* How many of the MAX_TRANSACTIONS largest timestamps of the eligible   *)
(* events are equal to t, and how many live records carry timestamp t.   *)
EligibleCount(t) == Cardinality({i \in DOMAIN eligible : eligible[i] = t})

EligibleAbove(t) == Cardinality({i \in DOMAIN eligible : eligible[i] > t})

LargestCount(t) ==
    LET room == MAX_TRANSACTIONS - EligibleAbove(t)
    IN  IF room <= 0 THEN 0
        ELSE IF EligibleCount(t) <= room THEN EligibleCount(t) ELSE room

LiveCount(t) ==
    Cardinality({k \in LiveTransactions : transactions[k].timestamp = t})

(* C2: whenever exactly MAX_TRANSACTIONS records are live, their         *)
(* timestamps are the MAX_TRANSACTIONS largest timestamps among all      *)
(* eligible events processed so far (as multisets).                      *)
C2_LiveAreLargest ==
    Cardinality(LiveTransactions) = MAX_TRANSACTIONS =>
        \A t \in 0..block : LiveCount(t) = LargestCount(t)

(* C2 witness: ten live records after an eleventh eligible event, the    *)
(* evicted record older than some of the records that stayed.            *)
C2_Witness ==
    /\ Cardinality(LiveTransactions) = MAX_TRANSACTIONS
    /\ Len(eligible) = MAX_TRANSACTIONS + 1
    /\ 0 \notin LiveTransactions
    /\ eligible[1] < eligible[Len(eligible)]
    /\ \E k \in LiveTransactions : transactions[k].timestamp = eligible[1]

(* C3: for LotteryWon events with strictly increasing days, whatever    *)
(* the gaps between them, after the event for day D no LotteryPrize      *)
(* record exists for a day <= D - MAX_PRIZES.                            *)
C3_NoOldLotteryPrize ==
    (winDays.last # NullInt /\ winDays.increasing) =>
        \A d \in DOMAIN lotteryPrizes : d > winDays.last - MAX_PRIZES

(* C4: at most MAX_PRIZES LotteryPrize records and at most MAX_PRIZES    *)
(* AuctionPrize records (placeholders included) are live.                *)
C4_PrizeCap ==
    /\ Cardinality(DOMAIN lotteryPrizes) <= MAX_PRIZES
    /\ Cardinality(DOMAIN auctionPrizes) <= MAX_PRIZES

(* C5: for each prize kind, if a record for day E is live then no record *)
(* of that kind for a day <= E - MAX_PRIZES is live.                     *)
C5_DayDistance ==
    /\ \A e, d \in DOMAIN lotteryPrizes : d > e - MAX_PRIZES
    /\ \A e, d \in DOMAIN auctionPrizes : d > e - MAX_PRIZES

(* C8: no LotteryPrize or AuctionPrize record has both its claimed flag  *)
(* and its expired flag true.                                            *)
C8_ClaimedXorExpired ==
    /\ \A d \in DOMAIN lotteryPrizes :
          ~(lotteryPrizes[d].claimed /\ lotteryPrizes[d].expired)
    /\ \A d \in DOMAIN auctionPrizes :
          ~(auctionPrizes[d].claimed /\ auctionPrizes[d].expired)

(* C8 witness: an expiry event for a winner whose only prizes are        *)
(* already claimed has been processed and marked nothing, while another  *)
(* record is expired.                                                    *)
C8_Witness ==
    /\ lastEvent.kind = "BeneficiaryFunded"
    /\ lastEvent.hit = "none"
    /\ \E d \in DOMAIN lotteryPrizes :
          /\ lotteryPrizes[d].winner = lastEvent.previousWinner
          /\ lotteryPrizes[d].claimed
    /\ \E d \in DOMAIN auctionPrizes :
          /\ auctionPrizes[d].winner = lastEvent.previousWinner
          /\ auctionPrizes[d].expired

(* The step delivers an event of this kind (NewBlock and NewDay leave   *)
(* lastEvent alone and change the block).                                *)
EventStep(kind) == lastEvent'.kind = kind /\ block' = block

(* Record d of the lottery store is live, unclaimed, unexpired and has   *)
(* this winner and amount.                                               *)
OpenLottery(d, winner, amount) ==
    /\ d \in DOMAIN lotteryPrizes
    /\ lotteryPrizes[d].winner = winner
    /\ lotteryPrizes[d].amount = amount
    /\ ~lotteryPrizes[d].claimed
    /\ ~lotteryPrizes[d].expired

OpenAuction(d, winner, amount) ==
    /\ d \in DOMAIN auctionPrizes
    /\ auctionPrizes[d].winner = winner
    /\ auctionPrizes[d].stratAmount = amount
    /\ ~auctionPrizes[d].claimed
    /\ ~auctionPrizes[d].expired

(* A PrizeClaimed{W, A} arrives while record d, a day of the scan        *)
(* window, is the lowest-day open lottery record matching (W, A): the    *)
(* record becomes claimed and totalLotteryClaimed grows by exactly A.    *)
FirstClaimMarks ==
    \A d \in ScanWindow :
        (/\ EventStep("PrizeClaimed")
         /\ OpenLottery(d, lastEvent'.winner, lastEvent'.amount)
         /\ \A e \in 0..(d - 1) :
               ~OpenLottery(e, lastEvent'.winner, lastEvent'.amount))
        => /\ d \in DOMAIN lotteryPrizes'
           /\ lotteryPrizes'[d].claimed
           /\ stats'[PROTOCOL_STATS_ID].totalLotteryClaimed =
                 StatsField("totalLotteryClaimed") + lastEvent'.amount

(* The event is the same PrizeClaimed{W, A} as the one before it, which  *)
(* marked a lottery record.                                              *)
SecondIdenticalClaim ==
    /\ lastEvent.kind = "PrizeClaimed"
    /\ lastEvent.hit = "lottery"
    /\ EventStep("PrizeClaimed")
    /\ lastEvent'.winner = lastEvent.winner
    /\ lastEvent'.amount = lastEvent.amount

(* C6 as stated: the first claim marks the record and adds A; a second   *)
(* identical PrizeClaimed leaves the whole store unchanged.              *)
C6_ClaimThenNoOp ==
    [][/\ FirstClaimMarks
       /\ SecondIdenticalClaim => UNCHANGED store]_vars

(* C6 amended: the second identical PrizeClaimed leaves the store        *)
(* unchanged when no other open lottery or auction record of the scan    *)
(* window matches (W, A).                                                *)
C6_ClaimThenNoOpUnlessOtherMatch ==
    [][/\ FirstClaimMarks
       /\ (/\ SecondIdenticalClaim
           /\ \A d \in ScanWindow :
                 /\ ~OpenLottery(d, lastEvent'.winner, lastEvent'.amount)
                 /\ ~OpenAuction(d, lastEvent'.winner, lastEvent'.amount))
          => UNCHANGED store]_vars

(* C6 witness: a PrizeClaimed{W, A} has just found no match while a      *)
(* lottery record for (W, A) is claimed.                                 *)
C6_Witness ==
    /\ lastEvent.kind = "PrizeClaimed"
    /\ lastEvent.hit = "none"
    /\ PROTOCOL_STATS_ID \in DOMAIN stats
    /\ \E d \in DOMAIN lotteryPrizes :
          /\ lotteryPrizes[d].winner = lastEvent.winner
          /\ lotteryPrizes[d].amount = lastEvent.amount
          /\ lotteryPrizes[d].claimed
          /\ stats[PROTOCOL_STATS_ID].totalLotteryClaimed >= lastEvent.amount

(* The latest day for which a prize record of either kind is live. *)
LiveDays == DOMAIN lotteryPrizes \cup DOMAIN auctionPrizes

LatestDay == CHOOSE d \in LiveDays : \A e \in LiveDays : e <= d

RecentDay(d) == d > LatestDay - CLAIM_SCAN_DAYS

(* C7: whenever an open lottery or auction prize has the winner and      *)
(* amount of a PrizeClaimed event and its day is among the               *)
(* CLAIM_SCAN_DAYS most recent days, the event marks a prize claimed.    *)
C7_ClaimSearchesLastPrizes ==
    [][(/\ EventStep("PrizeClaimed")
        /\ \E d \in LiveDays :
              /\ RecentDay(d)
              /\ \/ OpenLottery(d, lastEvent'.winner, lastEvent'.amount)
                 \/ OpenAuction(d, lastEvent'.winner, lastEvent'.amount))
       => \/ \E d \in DOMAIN lotteryPrizes :
                /\ ~lotteryPrizes[d].claimed
                /\ d \in DOMAIN lotteryPrizes'
                /\ lotteryPrizes'[d].claimed
          \/ \E d \in DOMAIN auctionPrizes :
                /\ ~auctionPrizes[d].claimed
                /\ d \in DOMAIN auctionPrizes'
                /\ auctionPrizes'[d].claimed]_vars

(* C9: a Minted event creates one MINT record under the key the counter  *)
(* had; a fee-pool Transfer from a non-zero source that follows it       *)
(* creates one TRANSFER record under the next key and leaves the MINT    *)
(* record as it was.                                                     *)
C9_MintAndFeeTransferAreTwo ==
    [][LET c == StatsField("transactionCounter")
       IN  /\ EventStep("Minted") =>
                /\ c \notin LiveTransactions
                /\ DOMAIN transactions' \ LiveTransactions = {c}
                /\ transactions'[c].type = "MINT"
                /\ stats'[PROTOCOL_STATS_ID].transactionCounter = c + 1
           /\ (/\ lastEvent.kind = "Minted"
               /\ EventStep("Transfer")
               /\ lastEvent'.to = FEES_POOL_ADDRESS
               /\ lastEvent'.from # ADDRESS_ZERO)
              => /\ c \notin LiveTransactions
                 /\ DOMAIN transactions' \ LiveTransactions = {c}
                 /\ transactions'[c].type = "TRANSFER"
                 /\ stats'[PROTOCOL_STATS_ID].transactionCounter = c + 1
                 /\ (c - 1) \in LiveTransactions
                 /\ (c - 1) \in DOMAIN transactions'
                 /\ transactions'[c - 1] = transactions[c - 1]
                 /\ transactions'[c - 1].type = "MINT"]_vars

(* C9 witness: a MINT record and, under the next key, the TRANSFER       *)
(* record of the fee transfer of the same transaction.                   *)
C9_Witness ==
    /\ lastEvent.kind = "Transfer"
    /\ \E k \in LiveTransactions :
          /\ k + 1 = StatsField("transactionCounter") - 1
          /\ k + 1 \in LiveTransactions
          /\ transactions[k].type = "MINT"
          /\ transactions[k + 1].type = "TRANSFER"
          /\ transactions[k].txHash = transactions[k + 1].txHash

ZeroSourceFeeTransfer(e) ==
    /\ e.kind = "Transfer"
    /\ e.to = FEES_POOL_ADDRESS
    /\ e.from = ADDRESS_ZERO

(* C10: a Transfer to the fee pool whose source is the zero address      *)
(* leaves the whole store unchanged.                                     *)
C10_ZeroSourceTransferIgnored ==
    [][ZeroSourceFeeTransfer(lastEvent') => UNCHANGED store]_vars

(* C10 witness: such a Transfer has been processed while the rotation    *)
(* probe would have found MAX_TRANSACTIONS records to rotate.            *)
C10_Witness ==
    /\ ZeroSourceFeeTransfer(lastEvent)
    /\ ProbeLen(transactions, 0) >= MAX_TRANSACTIONS
    /\ Cardinality(LiveTransactions) = MAX_TRANSACTIONS

(* C11: a Transfer whose destination is not the fee-pool address leaves  *)
(* the whole store unchanged, whatever its source and value.             *)
C11_OtherDestinationIgnored ==
    [][(EventStep("Transfer") /\ lastEvent'.to # FEES_POOL_ADDRESS)
          => UNCHANGED store]_vars

(* C11 witness: a Transfer from a non-zero source to another address     *)
(* has been processed while the rotation probe would have found          *)
(* MAX_TRANSACTIONS records to rotate.                                   *)
C11_Witness ==
    /\ lastEvent.kind = "Transfer"
    /\ lastEvent.to # FEES_POOL_ADDRESS
    /\ lastEvent.from # ADDRESS_ZERO
    /\ ProbeLen(transactions, 0) >= MAX_TRANSACTIONS
    /\ StatsField("transactionCounter") = MAX_TRANSACTIONS

(* The step delivers an event that creates a Transaction record. *)
EligibleStep ==
    \/ EventStep("Minted")
    \/ EventStep("Redeemed")
    \/ /\ EventStep("Transfer")
       /\ lastEvent'.to = FEES_POOL_ADDRESS
       /\ lastEvent'.from # ADDRESS_ZERO

Counter == StatsField("transactionCounter")

(* C12: the transaction sequence counter grows by exactly 1 on every     *)
(* eligible Minted, Redeemed or fee-pool Transfer event, with or without *)
(* an eviction, and is left unchanged by every other event: it never     *)
(* decreases and is never reset.                                         *)
C12_CounterOnlyGrows ==
    [][IF EligibleStep THEN Counter' = Counter + 1
                       ELSE Counter' = Counter]_vars

(* C12 witness: the counter stands above MAX_TRANSACTIONS after an       *)
(* eviction, prize events have been processed since, and the last event  *)
(* was not an eligible one.                                              *)
C12_Witness ==
    /\ Counter > MAX_TRANSACTIONS
    /\ 0 \notin LiveTransactions
    /\ lastEvent.kind = "BidPlaced"
    /\ StatsField("lotteryCount") > 0
    /\ StatsField("totalLotteryClaimed") > 0

(* C13: the keys of the live Transaction records form one contiguous     *)
(* range ending at Counter - 1; a new record takes a key above every     *)
(* live key, and a removed record has a key below every record kept.     *)
C13_ContiguousKeys ==
    [][/\ \E lo \in 0..Counter' : DOMAIN transactions' = lo..(Counter' - 1)
       /\ \A k \in DOMAIN transactions' \ LiveTransactions :
             \A j \in LiveTransactions : j < k
       /\ \A r \in LiveTransactions \ DOMAIN transactions' :
             \A k \in LiveTransactions \cap DOMAIN transactions' : r < k]_vars

(* C13 witness: a record has been removed and records of two different   *)
(* timestamps are live under the keys 1 .. Counter - 1.                  *)
C13_Witness ==
    /\ Counter = MAX_TRANSACTIONS + 2
    /\ LiveTransactions = 1..(Counter - 1)
    /\ \E j, k \in LiveTransactions :
          transactions[j].timestamp < transactions[k].timestamp

(* C14: AuctionStarted for a day with no AuctionPrize record creates a   *)
(* placeholder with winner ADDRESS_ZERO, monPaid 0, bidCount 0, claimed  *)
(* and expired false; a BidPlaced for the same day that follows raises   *)
(* the placeholder's bidCount to 1.                                      *)
C14_PlaceholderThenBid ==
    [][/\ (/\ EventStep("AuctionStarted")
           /\ lastEvent'.day \notin DOMAIN auctionPrizes)
          => LET d == lastEvent'.day
             IN  /\ DOMAIN auctionPrizes' = DOMAIN auctionPrizes \cup {d}
                 /\ auctionPrizes'[d].winner = ADDRESS_ZERO
                 /\ auctionPrizes'[d].stratAmount = lastEvent'.stratAmount
                 /\ auctionPrizes'[d].monPaid = 0
                 /\ auctionPrizes'[d].bidCount = 0
                 /\ ~auctionPrizes'[d].claimed
                 /\ ~auctionPrizes'[d].expired
       /\ (/\ lastEvent.kind = "AuctionStarted"
           /\ EventStep("BidPlaced")
           /\ lastEvent'.day = lastEvent.day
           /\ lastEvent.day \in DOMAIN auctionPrizes
           /\ auctionPrizes[lastEvent.day].winner = ADDRESS_ZERO
           /\ auctionPrizes[lastEvent.day].bidCount = 0)
          => LET d == lastEvent.day
             IN  /\ d \in DOMAIN auctionPrizes'
                 /\ auctionPrizes'[d] =
                       [auctionPrizes[d] EXCEPT !.bidCount = 1]]_vars

(* C14 witness: a bid has just been counted on a placeholder. *)
C14_Witness ==
    /\ lastEvent.kind = "BidPlaced"
    /\ lastEvent.day \in DOMAIN auctionPrizes
    /\ auctionPrizes[lastEvent.day].winner = ADDRESS_ZERO
    /\ auctionPrizes[lastEvent.day].bidCount = 1
    /\ \E b \in DOMAIN bids : bids[b].auction = lastEvent.day

(* The number of Bid records for day d (bids are never deleted). *)
BidsFor(d) == Cardinality({b \in DOMAIN bids : bids[b].day = d})

(* C15: after AuctionStarted for day d, then k BidPlaced events for day  *)
(* d, then AuctionWon for day d, the record of day d has bidCount k.     *)
C15_BidCountSurvivesWin ==
    [][(/\ EventStep("AuctionWon")
        /\ lastEvent'.day \in DOMAIN auctionPrizes
        /\ auctionPrizes[lastEvent'.day].winner = ADDRESS_ZERO
        /\ auctionPrizes[lastEvent'.day].bidCount = BidsFor(lastEvent'.day))
       => /\ lastEvent'.day \in DOMAIN auctionPrizes'
          /\ auctionPrizes'[lastEvent'.day].bidCount =
                BidsFor(lastEvent'.day)]_vars

(* Some record of the scan window is live, unclaimed and unexpired and   *)
(* has this winner, whatever its amount.                                 *)
OpenFor(winner) ==
    \E d \in ScanWindow :
       \/ /\ d \in DOMAIN lotteryPrizes
          /\ lotteryPrizes[d].winner = winner
          /\ ~lotteryPrizes[d].claimed
          /\ ~lotteryPrizes[d].expired
       \/ /\ d \in DOMAIN auctionPrizes
          /\ auctionPrizes[d].winner = winner
          /\ ~auctionPrizes[d].claimed
          /\ ~auctionPrizes[d].expired

(* C16: a PrizeClaimed or BeneficiaryFunded event that matches no live,  *)
(* unclaimed, unexpired prize inside the scan window creates, changes    *)
(* and deletes no entity of any kind.                                    *)
C16_NoMatchIsNoOp ==
    [][/\ (/\ EventStep("PrizeClaimed")
           /\ \A d \in ScanWindow :
                 /\ ~OpenLottery(d, lastEvent'.winner, lastEvent'.amount)
                 /\ ~OpenAuction(d, lastEvent'.winner, lastEvent'.amount))
          => UNCHANGED store
       /\ (/\ EventStep("BeneficiaryFunded")
           /\ ~OpenFor(lastEvent'.previousWinner))
          => UNCHANGED store]_vars

(* C16 witness: an event of either kind has just found no match while    *)
(* users, transactions, bids and prizes of both kinds are live, one of   *)
(* the prizes open for the same winner with another amount.              *)
C16_Witness ==
    /\ lastEvent.kind = "PrizeClaimed"
    /\ lastEvent.hit = "none"
    /\ OpenFor(lastEvent.winner)
    /\ DOMAIN users # {}
    /\ LiveTransactions # {}
    /\ DOMAIN bids # {}
    /\ DOMAIN lotteryPrizes # {}
    /\ DOMAIN auctionPrizes # {}

(* The records of a prize store that the step changes. *)
Modified(before, after) ==
    {d \in DOMAIN before \cap DOMAIN after : before[d] # after[d]}

(* C17: PrizeClaimed and BeneficiaryFunded never create and never delete *)
(* a prize record, and modify at most one existing prize record.         *)
C17_CorrelatorKeepsKeys ==
    [][(EventStep("PrizeClaimed") \/ EventStep("BeneficiaryFunded"))
       => /\ DOMAIN lotteryPrizes' = DOMAIN lotteryPrizes
          /\ DOMAIN auctionPrizes' = DOMAIN auctionPrizes
          /\ Cardinality(Modified(lotteryPrizes, lotteryPrizes')
                         \cup Modified(auctionPrizes, auctionPrizes')) <= 1
          /\ \/ Modified(lotteryPrizes, lotteryPrizes') = {}
             \/ Modified(auctionPrizes, auctionPrizes') = {}]_vars

(* C17 witness: an expiry has just marked one lottery record while       *)
(* another lottery record and an auction record of the same winner stay  *)
(* open.                                                                 *)
C17_Witness ==
    /\ lastEvent.kind = "BeneficiaryFunded"
    /\ lastEvent.hit = "lottery"
    /\ \E d \in DOMAIN lotteryPrizes :
          /\ d # lastEvent.day
          /\ lotteryPrizes[d].winner = lastEvent.previousWinner
          /\ ~lotteryPrizes[d].claimed
          /\ ~lotteryPrizes[d].expired
    /\ \E d \in DOMAIN auctionPrizes :
          /\ auctionPrizes[d].winner = lastEvent.previousWinner
          /\ ~auctionPrizes[d].claimed
          /\ ~auctionPrizes[d].expired

UserCounters ==
    {"totalLotteryWinnings", "totalAuctionWinnings", "totalAuctionSpent",
     "lotteryWinCount", "auctionWinCount", "totalMinted", "totalRedeemed",
     "transactionCount"}

(* The user an event is about, and what the event adds to counter f of   *)
(* that user. Events without a user have the subject NullAddress.        *)
Subject(e) ==
    IF e.kind = "Minted" THEN e.to
    ELSE IF e.kind = "Redeemed" THEN e.from
    ELSE IF e.kind = "Transfer" /\ ~(e.to # FEES_POOL_ADDRESS
                                       \/ e.from = ADDRESS_ZERO) THEN e.from
    ELSE IF e.kind \in {"LotteryWon", "AuctionWon"} THEN e.winner
    ELSE NullAddress

Added(e, f) ==
    IF e.kind = "Minted"
    THEN (IF f = "totalMinted" THEN e.stratAmount
          ELSE IF f = "transactionCount" THEN 1 ELSE 0)
    ELSE IF e.kind = "Redeemed"
    THEN (IF f = "totalRedeemed" THEN e.stratAmount
          ELSE IF f = "transactionCount" THEN 1 ELSE 0)
    ELSE IF e.kind = "Transfer"
    THEN (IF f = "transactionCount" THEN 1 ELSE 0)
    ELSE IF e.kind = "LotteryWon"
    THEN (IF f = "totalLotteryWinnings" THEN e.amount
          ELSE IF f = "lotteryWinCount" THEN 1 ELSE 0)
    ELSE IF e.kind = "AuctionWon"
    THEN (IF f = "totalAuctionWinnings" THEN e.stratAmount
          ELSE IF f = "totalAuctionSpent" THEN e.monPaid
          ELSE IF f = "auctionWinCount" THEN 1 ELSE 0)
    ELSE 0

(* The step removes a Transaction or a prize record. *)
Evicts ==
    \/ LiveTransactions \ DOMAIN transactions' # {}
    \/ DOMAIN lotteryPrizes \ DOMAIN lotteryPrizes' # {}
    \/ DOMAIN auctionPrizes \ DOMAIN auctionPrizes' # {}

(* C19: a User that exists exists in every later state and none of its   *)
(* cumulative counters ever decreases; a step that evicts Transaction or *)
(* prize records changes the users exactly as the event alone does: the  *)
(* counters of the event's own user grow by the event's amounts and no   *)
(* other field of any user changes.                                      *)
C19_UsersPersist ==
    [][/\ DOMAIN users \subseteq DOMAIN users'
       /\ \A u \in DOMAIN users : \A f \in UserCounters :
             users'[u][f] >= users[u][f]
       /\ Evicts =>
             /\ DOMAIN users' \subseteq DOMAIN users \cup {Subject(lastEvent')}
             /\ \A u \in DOMAIN users' :
                   /\ users'[u].id = u
                   /\ users'[u].address = u
                   /\ \A f \in UserCounters :
                         users'[u][f] =
                            UserField(u, f) +
                            (IF u = Subject(lastEvent')
                             THEN Added(lastEvent', f) ELSE 0)]_vars

(* C19 witness: a Transaction record and a LotteryPrize record of a user *)
(* have been evicted, the user's counters still count them, and another  *)
(* user exists.                                                          *)
C19_Witness ==
    /\ Counter > MAX_TRANSACTIONS
    /\ 0 \notin LiveTransactions
    /\ StatsField("lotteryCount") = 2
    /\ DOMAIN lotteryPrizes = {MAX_PRIZES}
    /\ UserField(Alice, "lotteryWinCount") = 2
    /\ UserField(Alice, "transactionCount") > 0
    /\ Cardinality({k \in LiveTransactions : transactions[k].user = Alice})
          < UserField(Alice, "transactionCount")
    /\ Sender \in DOMAIN users

C21_ProbeCollectsAll ==
    [][LET n == Cardinality(LiveTransactions)
       IN  /\ ProbeLen(transactions, 0) = n
           /\ (EligibleStep /\ n >= MAX_TRANSACTIONS) =>
                 /\ Cardinality(LiveTransactions \ DOMAIN transactions')
                       = n - (MAX_TRANSACTIONS - 1)
                 /\ Cardinality(DOMAIN transactions') = MAX_TRANSACTIONS]_vars

(* The days of the records a win for day D deletes. *)
RotatedAway(D) ==
    {d \in 0..D : /\ d >= D - (ROTATE_SCAN_DAYS + MAX_PRIZES - 1)
                  /\ d <= D - MAX_PRIZES}

C23_KindsAreIndependent ==
    [][/\ EventStep("LotteryWon") => UNCHANGED auctionPrizes
       /\ (\/ EventStep("AuctionWon")
           \/ EventStep("AuctionStarted")
           \/ EventStep("BidPlaced")) => UNCHANGED lotteryPrizes]_vars

(* C23 witness: a LotteryWon has just evicted a lottery record while an  *)
(* auction record with a counted bid is live, the auction events having  *)
(* come while a lottery record was live.                                 *)
C23_Witness ==
    /\ lastEvent.kind = "LotteryWon"
    /\ StatsField("lotteryCount") = 2
    /\ DOMAIN lotteryPrizes = {MAX_PRIZES}
    /\ \E d \in DOMAIN auctionPrizes : auctionPrizes[d].bidCount > 0
    /\ StatsField("auctionCount") > 0

(* Record d is live, unclaimed and unexpired and has this winner. *)
OpenLotteryFor(d, winner) ==
    /\ d \in DOMAIN lotteryPrizes
    /\ lotteryPrizes[d].winner = winner
    /\ ~lotteryPrizes[d].claimed
    /\ ~lotteryPrizes[d].expired

OpenAuctionFor(d, winner) ==
    /\ d \in DOMAIN auctionPrizes
    /\ auctionPrizes[d].winner = winner
    /\ ~auctionPrizes[d].claimed
    /\ ~auctionPrizes[d].expired

(* C24: when a PrizeClaimed{W, A} matches an open lottery record and an  *)
(* open auction record of the scan window, only a lottery record is      *)
(* marked and only totalLotteryClaimed grows, by A; an auction record is *)
(* marked, and totalAuctionClaimed grows by A, only when no lottery      *)
(* record matches.                                                       *)
C24_LotteryBeforeAuction ==
    [][EventStep("PrizeClaimed") =>
         LET W == lastEvent'.winner
             A == lastEvent'.amount
             lotteryMatch == \E d \in ScanWindow : OpenLottery(d, W, A)
             auctionMatch == \E d \in ScanWindow : OpenAuction(d, W, A)
         IN  /\ lotteryMatch =>
                   /\ UNCHANGED auctionPrizes
                   /\ StatsField("totalAuctionClaimed")'
                         = StatsField("totalAuctionClaimed")
                   /\ StatsField("totalLotteryClaimed")'
                         = StatsField("totalLotteryClaimed") + A
                   /\ \E d \in ScanWindow :
                         /\ OpenLottery(d, W, A)
                         /\ Modified(lotteryPrizes, lotteryPrizes') = {d}
                         /\ lotteryPrizes'[d].claimed
             /\ (~lotteryMatch /\ auctionMatch) =>
                   /\ UNCHANGED lotteryPrizes
                   /\ StatsField("totalLotteryClaimed")'
                         = StatsField("totalLotteryClaimed")
                   /\ StatsField("totalAuctionClaimed")'
                         = StatsField("totalAuctionClaimed") + A
                   /\ \E d \in ScanWindow :
                         /\ OpenAuction(d, W, A)
                         /\ Modified(auctionPrizes, auctionPrizes') = {d}
                         /\ auctionPrizes'[d].claimed
             /\ (~lotteryMatch /\ ~auctionMatch) =>
                   UNCHANGED <<lotteryPrizes, auctionPrizes, stats>>]_vars

(* C24 witness: a claim has just marked a lottery record while an open   *)
(* auction record with the same winner and amount stays open.            *)
C24_Witness ==
    /\ lastEvent.kind = "PrizeClaimed"
    /\ lastEvent.hit = "lottery"
    /\ lotteryPrizes[lastEvent.day].claimed
    /\ \E d \in ScanWindow :
          OpenAuction(d, lastEvent.winner, lastEvent.amount)
    /\ StatsField("totalAuctionClaimed") = 0

ClaimedAndExpiredTotals ==
    {"totalLotteryClaimed", "totalAuctionClaimed",
     "totalLotteryExpired", "totalAuctionExpired"}

C26_ExpiryByWinnerOnly ==
    [][EventStep("BeneficiaryFunded") =>
         LET W == lastEvent'.previousWinner
             lotteryMatch == \E d \in ScanWindow : OpenLotteryFor(d, W)
             auctionMatch == \E d \in ScanWindow : OpenAuctionFor(d, W)
         IN  /\ lotteryMatch =>
                   \E d \in ScanWindow :
                      /\ OpenLotteryFor(d, W)
                      /\ lotteryPrizes' =
                            [lotteryPrizes EXCEPT ![d] =
                               [@ EXCEPT
                                  !.expired = TRUE,
                                  !.beneficiary = lastEvent'.beneficiary,
                                  !.expiryTimestamp = BlockTimestamp(block),
                                  !.expiryTxHash = TxHash(block)]]
                      /\ StatsField("totalLotteryExpired")' =
                            StatsField("totalLotteryExpired")
                               + lotteryPrizes[d].amount
             /\ (~lotteryMatch /\ auctionMatch) =>
                   \E d \in ScanWindow :
                      /\ OpenAuctionFor(d, W)
                      /\ auctionPrizes' =
                            [auctionPrizes EXCEPT ![d] =
                               [@ EXCEPT
                                  !.expired = TRUE,
                                  !.beneficiary = lastEvent'.beneficiary,
                                  !.expiryTimestamp = BlockTimestamp(block),
                                  !.expiryTxHash = TxHash(block)]]
                      /\ StatsField("totalAuctionExpired")' =
                            StatsField("totalAuctionExpired")
                               + auctionPrizes[d].stratAmount
             /\ \A d \in Modified(lotteryPrizes, lotteryPrizes') :
                   OpenLotteryFor(d, W)
             /\ \A d \in Modified(auctionPrizes, auctionPrizes') :
                   OpenAuctionFor(d, W)]_vars

(* C26 witness: an expiry has just marked a record whose amount differs  *)
(* from the amount the event carried, and the total grew by the          *)
(* record's amount.                                                      *)
C26_Witness ==
    /\ lastEvent.kind = "BeneficiaryFunded"
    /\ lastEvent.hit = "lottery"
    /\ lotteryPrizes[lastEvent.day].expired
    /\ lotteryPrizes[lastEvent.day].beneficiary = lastEvent.beneficiary
    /\ lotteryPrizes[lastEvent.day].amount # lastEvent.amount
    /\ StatsField("totalLotteryExpired") = lotteryPrizes[lastEvent.day].amount

(* C27: AuctionStarted for a day that already has an AuctionPrize record *)
(* leaves that record and the whole store unchanged.                     *)
C27_StartKeepsExistingRecord ==
    [][(/\ EventStep("AuctionStarted")
        /\ lastEvent'.day \in DOMAIN auctionPrizes)
       => UNCHANGED store]_vars

(* C27 witness: an AuctionStarted has just been processed for a day      *)
(* whose record has a winner, a counted bid and its claimed flag set.    *)
C27_Witness ==
    /\ lastEvent.kind = "AuctionStarted"
    /\ lastEvent.day \in DOMAIN auctionPrizes
    /\ auctionPrizes[lastEvent.day].winner = Alice
    /\ auctionPrizes[lastEvent.day].bidCount > 0
    /\ auctionPrizes[lastEvent.day].claimed

(* C28: BidPlaced for a day that has no AuctionPrize record creates and  *)
(* changes no prize record, and adds one Bid record under the key of its *)
(* transaction hash and log index, linked to that day's auction.         *)
C28_BidWithoutRecord ==
    [][(/\ EventStep("BidPlaced")
        /\ lastEvent'.day \notin DOMAIN auctionPrizes)
       => LET id == <<TxHash(block), lastEvent'.logIndex>>
          IN  /\ UNCHANGED <<auctionPrizes, lotteryPrizes>>
              /\ id \notin DOMAIN bids
              /\ DOMAIN bids' = DOMAIN bids \cup {id}
              /\ \A b \in DOMAIN bids : bids'[b] = bids[b]
              /\ bids'[id].auction = lastEvent'.day
              /\ bids'[id].day = lastEvent'.day
              /\ bids'[id].bidder = lastEvent'.bidder
              /\ bids'[id].amount = lastEvent'.amount
              /\ bids'[id].txHash = TxHash(block)]_vars

(* C28 witness: a bid has just been recorded for a day without a record  *)
(* while the other day has one.                                          *)
C28_Witness ==
    /\ lastEvent.kind = "BidPlaced"
    /\ lastEvent.day \notin DOMAIN auctionPrizes
    /\ DOMAIN auctionPrizes # {}
    /\ \E b \in DOMAIN bids : bids[b].auction = lastEvent.day

Placeholders == {d \in DOMAIN auctionPrizes :
                   auctionPrizes[d].winner = ADDRESS_ZERO}

(* C29: no PrizeClaimed or BeneficiaryFunded event, whatever address it  *)
(* carries, marks a placeholder record claimed or expired or adds its    *)
(* amount to totalAuctionClaimed or totalAuctionExpired.                 *)
C29_PlaceholderNeverMarked ==
    [][(EventStep("PrizeClaimed") \/ EventStep("BeneficiaryFunded"))
       => \A d \in Placeholders :
             /\ d \in DOMAIN auctionPrizes'
             /\ auctionPrizes'[d] = auctionPrizes[d]]_vars

(* The number of loads the Transaction probe makes: one per key it       *)
(* finds and the one that finds nothing.                                 *)
ProbeLoads == ProbeLen(transactions, 0) + 1

(* The number of iterations a correlator scan makes when it ends with    *)
(* this value of i: up to and including the match, or the whole window.  *)
ScanIterations(i) == IF i < CLAIM_SCAN_DAYS THEN i + 1 ELSE CLAIM_SCAN_DAYS

C31_NewKeyIsFresh ==
    [][EligibleStep =>
          /\ Counter \notin LiveTransactions
          /\ Counter \in DOMAIN transactions'
          /\ transactions'[Counter].timestamp = BlockTimestamp(block)
          /\ \A k \in DOMAIN transactions' \ {Counter} :
                /\ k \in LiveTransactions
                /\ transactions'[k] = transactions[k]]_vars

(* C31 witness: the record of the last event is live under the key       *)
(* counter - 1 next to older records, after an eviction has happened.    *)
C31_Witness ==
    /\ lastEvent.kind \in {"Minted", "Redeemed"}
    /\ Counter - 1 \in LiveTransactions
    /\ Cardinality(LiveTransactions) > 1
    /\ Counter > Cardinality(LiveTransactions)

(* The sum of counter f over the users of the set S. *)
RECURSIVE SumOverUsers(_, _)
SumOverUsers(S, f) ==
    IF S = {} THEN 0
    ELSE LET u == CHOOSE x \in S : TRUE
         IN  users[u][f] + SumOverUsers(S \ {u}, f)

UserSum(f) == SumOverUsers(DOMAIN users, f)

(* C32: totalTransactions and transactionCounter of ProtocolStats are    *)
(* equal, both are the number of eligible Minted, Redeemed and fee-pool  *)
(* Transfer events processed so far, and both are the sum of             *)
(* transactionCount over all users, whatever has been evicted.           *)
C32_TransactionCountsAgree ==
    /\ StatsField("totalTransactions") = Counter
    /\ Counter = Len(eligible)
    /\ Counter = UserSum("transactionCount")

(* C32 witness: records have been evicted and two users have             *)
(* transactions.                                                         *)
C32_Witness ==
    /\ Counter > MAX_TRANSACTIONS
    /\ Cardinality(LiveTransactions) < Counter
    /\ UserField(Alice, "transactionCount") > 0
    /\ UserField(Sender, "transactionCount") > 0

(* The step delivers a Transfer that creates a Transaction record. *)
FeePoolTransferStep ==
    /\ EventStep("Transfer")
    /\ lastEvent'.to = FEES_POOL_ADDRESS
    /\ lastEvent'.from # ADDRESS_ZERO

(* A counter of a user after the step, 0 while the user does not exist. *)
UserFieldAfter(address, f) ==
    IF address \in DOMAIN users' THEN users'[address][f] ELSE 0

MintTotalsAgree ==
    /\ StatsField("totalMinted") = UserSum("totalMinted")
    /\ StatsField("totalRedeemed") = UserSum("totalRedeemed")

(* C33: a fee-pool Transfer records a TRANSFER Transaction with fee 0    *)
(* and collateral amount 0 and leaves totalMinted, totalRedeemed and     *)
(* totalFees of ProtocolStats and totalMinted and totalRedeemed of the   *)
(* source user unchanged; Minted adds the token amount to totalMinted    *)
(* and the fee to totalFees, Redeemed adds the token amount to           *)
(* totalRedeemed and the fee to totalFees; after every step totalMinted  *)
(* and totalRedeemed of ProtocolStats are the sums over all users.       *)
C33_TransferIsNoMint ==
    [][/\ FeePoolTransferStep =>
             /\ transactions'[Counter].type = "TRANSFER"
             /\ transactions'[Counter].fee = 0
             /\ transactions'[Counter].monAmount = 0
             /\ transactions'[Counter].stratAmount = lastEvent'.value
             /\ StatsField("totalMinted")' = StatsField("totalMinted")
             /\ StatsField("totalRedeemed")' = StatsField("totalRedeemed")
             /\ StatsField("totalFees")' = StatsField("totalFees")
             /\ UserFieldAfter(lastEvent'.from, "totalMinted")
                   = UserField(lastEvent'.from, "totalMinted")
             /\ UserFieldAfter(lastEvent'.from, "totalRedeemed")
                   = UserField(lastEvent'.from, "totalRedeemed")
       /\ EventStep("Minted") =>
             /\ StatsField("totalMinted")'
                   = StatsField("totalMinted") + lastEvent'.stratAmount
             /\ StatsField("totalFees")'
                   = StatsField("totalFees") + lastEvent'.fee
             /\ StatsField("totalRedeemed")' = StatsField("totalRedeemed")
       /\ EventStep("Redeemed") =>
             /\ StatsField("totalRedeemed")'
                   = StatsField("totalRedeemed") + lastEvent'.stratAmount
             /\ StatsField("totalFees")'
                   = StatsField("totalFees") + lastEvent'.fee
             /\ StatsField("totalMinted")' = StatsField("totalMinted")
       /\ MintTotalsAgree']_vars

(* C33 witness: a fee-pool Transfer has just been recorded after mints   *)
(* and redeems by another user.                                          *)
C33_Witness ==
    /\ lastEvent.kind = "Transfer"
    /\ lastEvent.to = FEES_POOL_ADDRESS
    /\ Counter - 1 \in LiveTransactions
    /\ transactions[Counter - 1].type = "TRANSFER"
    /\ StatsField("totalMinted") > 0
    /\ StatsField("totalRedeemed") > 0
    /\ UserField(Sender, "totalMinted") = 0

WinTotalsAgree ==
    /\ StatsField("lotteryCount") = UserSum("lotteryWinCount")
    /\ StatsField("totalLotteryPrizes") = UserSum("totalLotteryWinnings")
    /\ StatsField("auctionCount") = UserSum("auctionWinCount")
    /\ StatsField("totalAuctionPrizes") = UserSum("totalAuctionWinnings")

WinTotals ==
    <<StatsField("lotteryCount"), StatsField("totalLotteryPrizes"),
      StatsField("auctionCount"), StatsField("totalAuctionPrizes"),
      UserSum("lotteryWinCount"), UserSum("totalLotteryWinnings"),
      UserSum("auctionWinCount"), UserSum("totalAuctionWinnings")>>

(* C34: after every step lotteryCount, totalLotteryPrizes, auctionCount  *)
(* and totalAuctionPrizes of ProtocolStats are the sums of               *)
(* lotteryWinCount, totalLotteryWinnings, auctionWinCount and            *)
(* totalAuctionWinnings over all users; a win that rotates records away  *)
(* adds exactly its own prize, and an AuctionStarted event changes none  *)
(* of the eight values.                                                  *)
C34_WinTotalsAgree ==
    [][/\ WinTotalsAgree'
       /\ EventStep("AuctionStarted") => WinTotals' = WinTotals
       /\ EventStep("LotteryWon") =>
             /\ StatsField("lotteryCount")' = StatsField("lotteryCount") + 1
             /\ StatsField("totalLotteryPrizes")'
                   = StatsField("totalLotteryPrizes") + lastEvent'.amount
             /\ StatsField("auctionCount")' = StatsField("auctionCount")
             /\ StatsField("totalAuctionPrizes")'
                   = StatsField("totalAuctionPrizes")
       /\ EventStep("AuctionWon") =>
             /\ StatsField("auctionCount")' = StatsField("auctionCount") + 1
             /\ StatsField("totalAuctionPrizes")'
                   = StatsField("totalAuctionPrizes") + lastEvent'.stratAmount
             /\ StatsField("lotteryCount")' = StatsField("lotteryCount")
             /\ StatsField("totalLotteryPrizes")'
                   = StatsField("totalLotteryPrizes")]_vars

(* C34 witness: two lotteries have been won and the first one's record   *)
(* has been rotated away, an auction has been won, and a placeholder of  *)
(* a later auction is live.                                              *)
C34_Witness ==
    /\ StatsField("lotteryCount") = 2
    /\ Cardinality(DOMAIN lotteryPrizes) = 1
    /\ StatsField("auctionCount") = 1
    /\ Placeholders # {}

(* C35: in every reachable state the claimed and expired totals of each  *)
(* prize kind together do not exceed what was awarded for that kind.     *)
C35_ClaimedWithinAwarded ==
    /\ StatsField("totalLotteryClaimed") + StatsField("totalLotteryExpired")
          <= StatsField("totalLotteryPrizes")
    /\ StatsField("totalAuctionClaimed") + StatsField("totalAuctionExpired")
          <= StatsField("totalAuctionPrizes")

(* Flag f of every record of the store that is live before and after the *)
(* step stays TRUE if it was TRUE.                                       *)
FlagKept(before, after, f) ==
    \A d \in DOMAIN before \cap DOMAIN after :
        before[d][f] => after[d][f]

(* C36: while a prize record of a day and kind is live, its claimed flag *)
(* and its expired flag, once TRUE, stay TRUE: no step sets one back to  *)
(* FALSE on a record that is live before and after the step.             *)
C36_FlagsAreMonotone ==
    [][/\ FlagKept(lotteryPrizes, lotteryPrizes', "claimed")
       /\ FlagKept(lotteryPrizes, lotteryPrizes', "expired")
       /\ FlagKept(auctionPrizes, auctionPrizes', "claimed")
       /\ FlagKept(auctionPrizes, auctionPrizes', "expired")]_vars

TransactionOwnersExist ==
    \A k \in LiveTransactions : transactions[k].userEntity \in DOMAIN users

LotteryOwnersExist ==
    \A d \in DOMAIN lotteryPrizes : lotteryPrizes[d].user \in DOMAIN users

WonAuctionOwnersExist ==
    \A d \in DOMAIN auctionPrizes \ Placeholders :
        auctionPrizes[d].user \in DOMAIN users

(* C37: in every reachable state the owning-user key of every live       *)
(* Transaction, LotteryPrize and AuctionPrize record, placeholders       *)
(* included, is the key of an existing User record.                      *)
C37_OwnersExist ==
    /\ TransactionOwnersExist
    /\ LotteryOwnersExist
    /\ \A d \in DOMAIN auctionPrizes : auctionPrizes[d].user \in DOMAIN users

=============================================================================
